---- MODULE Spec2Model ----
(***************************************************************************)
(* A model of the find-like tools of this repository:                      *)
(*   project/pyfind.py : parse_expr, the predicate classes, the actions,   *)
(*                       walk and main;                                    *)
(*   src/pfind.py      : parse_size_expr, match_size and traverse.         *)
(* Strings are Python strings: Len, SubSeq and \o act on them character by *)
(* character.  Entry names are single characters, so that a path such as   *)
(* "r/a/b" has one character per name and per separator.                   *)
(***************************************************************************)
EXTENDS Integers, Sequences, FiniteSets, TLC

VARIABLES
    pc,         \* position of the running program
    argv,       \* sys.argv[1:]
    expr_args,  \* the tokens after the paths (pyfind.main)
    paths,      \* the root paths given to walk
    fs,         \* the filesystem: path -> what lstat returns, link target, permissions
    fs0,        \* the filesystem when the run started
    expr,       \* the composed predicate
    actions,    \* the active action: "print", "print0" or "delete"
    mindepth,   \* walk's mindepth
    maxdepth,   \* walk's maxdepth: <<>> is None, <<n>> is n
    topIdx,     \* index in paths of the root being walked
    stack,      \* os.walk's stack of directories still to list
    root,       \* the directory os.walk yielded last
    dirs,       \* the dirs list of that yield (pruned by del dirs[:])
    todo,       \* the entries of files + dirs still to process
    out,        \* standard output, one element per write
    errs,       \* standard error, one element per report
    listed,     \* history: directories read by os.walk (scandir)
    statted,    \* history: paths given to os.lstat
    evaluated,  \* history: paths given to expr(path, st)
    acted,      \* history: paths given to the action
    queued,     \* history: paths the loop over files + dirs was given
    inp,        \* input of the function under check (size, traverse)
    res         \* its result

vars == <<pc, argv, expr_args, paths, fs, fs0, expr, actions, mindepth, maxdepth, topIdx,
          stack, root, dirs, todo, out, errs, listed, statted, evaluated,
          acted, queued, inp, res>>

\* ------------------------------------------------------------ bounds

\* longest token list drawn for expr_args
MaxArgs == 3
\* largest value drawn for -mindepth / -maxdepth
MaxDepthArg == 3
\* largest NUMBER drawn for a size spec
MaxNumber == 2
\* longest token list drawn for parse_expr alone
MaxParseArgs == 4

\* ------------------------------------------------------------ strings

SEP == "/"

\* s[i-1:i]: the i-th character, "" beyond the end
CharAt(s, i) == IF i \in 1..Len(s) THEN SubSeq(s, i, i) ELSE SubSeq(s, 1, 0)

\* s[n:]
Drop(s, n) == SubSeq(s, n + 1, Len(s))

\* s[:-1]
DropLast(s) == SubSeq(s, 1, Len(s) - 1)

\* s[-1]
LastChar(s) == CharAt(s, Len(s))

StartsWith(s, p) == Len(s) >= Len(p) /\ SubSeq(s, 1, Len(p)) = p

EndsWith(s, p) == Len(s) >= Len(p) /\ SubSeq(s, Len(s) - Len(p) + 1, Len(s)) = p

RECURSIVE Count(_, _)
\* str.count of a one-character string
Count(s, c) ==
    IF Len(s) = 0 THEN 0
    ELSE (IF CharAt(s, 1) = c THEN 1 ELSE 0) + Count(Drop(s, 1), c)

RECURSIVE LStrip(_, _)
\* str.lstrip(chars)
LStrip(s, chars) ==
    IF Len(s) > 0 /\ CharAt(s, 1) \in chars THEN LStrip(Drop(s, 1), chars) ELSE s

Digits == {"0", "1", "2", "3", "4", "5", "6", "7", "8", "9"}

DigitVal(c) ==
    CASE c = "0" -> 0 [] c = "1" -> 1 [] c = "2" -> 2 [] c = "3" -> 3
      [] c = "4" -> 4 [] c = "5" -> 5 [] c = "6" -> 6 [] c = "7" -> 7
      [] c = "8" -> 8 [] c = "9" -> 9

IsDigits(s) == Len(s) > 0 /\ \A i \in 1..Len(s) : CharAt(s, i) \in Digits

RECURSIVE DigitsVal(_)
DigitsVal(s) ==
    IF Len(s) = 0 THEN 0 ELSE DigitsVal(DropLast(s)) * 10 + DigitVal(LastChar(s))

\* A call's outcome: the exception it raised ("none" when it returned) and
\* the value it returned.
Ret(v) == [exc |-> "none", val |-> v]
Raise(e) == [exc |-> e, val |-> FALSE]
RetInt(v) == [exc |-> "none", val |-> v]
RaiseInt(e) == [exc |-> e, val |-> 0]

\* int(s): an optional sign and decimal digits; anything else is a ValueError
\* (the tokens drawn hold no blanks and no underscores, which int() accepts)
PyInt(s) ==
    IF IsDigits(s) THEN RetInt(DigitsVal(s))
    ELSE IF Len(s) > 1 /\ CharAt(s, 1) = "+" /\ IsDigits(Drop(s, 1))
         THEN RetInt(DigitsVal(Drop(s, 1)))
    ELSE IF Len(s) > 1 /\ CharAt(s, 1) = "-" /\ IsDigits(Drop(s, 1))
         THEN RetInt(0 - DigitsVal(Drop(s, 1)))
    ELSE RaiseInt("ValueError")

\* ------------------------------------------------------------ pyfind: utilities

Units == {"b", "c", "w", "k", "M", "G"}

UnitFactor(u) ==
    CASE u = "b" -> 1 [] u = "c" -> 1 [] u = "w" -> 2 [] u = "k" -> 1024
      [] u = "M" -> 1024 * 1024 [] u = "G" -> 1024 * 1024 * 1024

\* parse_size(size_str)
parse_size(size_str) ==
    IF Len(size_str) = 0 THEN RaiseInt("IndexError")
    ELSE IF LastChar(size_str) \in Units
         THEN LET n == PyInt(DropLast(size_str))
              IN  IF n.exc # "none" THEN n
                  ELSE RetInt(n.val * UnitFactor(LastChar(size_str)))
    ELSE PyInt(size_str)

\* n_compare(val, nstr)
n_compare(val, nstr) ==
    IF StartsWith(nstr, "+")
    THEN LET n == PyInt(Drop(nstr, 1))
         IN  IF n.exc # "none" THEN Raise(n.exc) ELSE Ret(val > n.val)
    ELSE IF StartsWith(nstr, "-")
    THEN LET n == PyInt(Drop(nstr, 1))
         IN  IF n.exc # "none" THEN Raise(n.exc) ELSE Ret(val < n.val)
    ELSE LET n == PyInt(nstr)
         IN  IF n.exc # "none" THEN Raise(n.exc) ELSE Ret(val = n.val)

\* ------------------------------------------------------------ pyfind: predicates

\* time.time() and the seconds of a day
NOW == 864000
DAY == 86400

Lower(c) == CASE c = "A" -> "a" [] c = "B" -> "b" [] OTHER -> c

RECURSIVE lower(_)
\* str.lower
lower(s) == IF Len(s) = 0 THEN "" ELSE Lower(CharAt(s, 1)) \o lower(Drop(s, 1))

RECURSIVE fnmatch(_, _)
\* fnmatch.fnmatch for patterns of literals, ? and *
fnmatch(name, pat) ==
    IF Len(pat) = 0 THEN Len(name) = 0
    ELSE IF CharAt(pat, 1) = "*"
         THEN fnmatch(name, Drop(pat, 1))
              \/ (Len(name) > 0 /\ fnmatch(Drop(name, 1), pat))
    ELSE IF CharAt(pat, 1) = "?"
         THEN Len(name) > 0 /\ fnmatch(Drop(name, 1), Drop(pat, 1))
    ELSE Len(name) > 0 /\ CharAt(name, 1) = CharAt(pat, 1)
         /\ fnmatch(Drop(name, 1), Drop(pat, 1))

\* match_pattern(name, pattern, case_sensitive)
match_pattern(name, pattern, case_sensitive) ==
    IF case_sensitive THEN fnmatch(name, pattern)
    ELSE fnmatch(lower(name), lower(pattern))

RECURSIVE basename(_)
\* os.path.basename
basename(path) ==
    IF Len(path) = 0 \/ LastChar(path) = SEP THEN ""
    ELSE basename(DropLast(path)) \o LastChar(path)

\* The predicate tree: the objects parse_expr builds.
TrueExpr == [op |-> "TrueExpr"]
FalseExpr == [op |-> "FalseExpr"]
And(l, r) == [op |-> "And", left |-> l, right |-> r]
Or(l, r) == [op |-> "Or", left |-> l, right |-> r]
Not(e) == [op |-> "Not", expr |-> e]
Name(pattern) == [op |-> "Name", pattern |-> pattern]
Iname(pattern) == [op |-> "Iname", pattern |-> pattern]
Type(t) == [op |-> "Type", t |-> t]
Size(size) == [op |-> "Size", size |-> size]
Mtime(n) == [op |-> "Mtime", n |-> n]
Atime(n) == [op |-> "Atime", n |-> n]
Ctime(n) == [op |-> "Ctime", n |-> n]
UserId(uid) == [op |-> "User", uid |-> uid]
GroupId(gid) == [op |-> "Group", gid |-> gid]

\* Type.__call__: the S_IS* test the letter selects; False for any other letter
TypeCall(t, st) ==
    IF t \in {"f", "d", "l", "b", "c", "p", "s"} THEN Ret(st.mode = t) ELSE Ret(FALSE)

\* Size.__call__
SizeCall(size, st) == n_compare(st.st_size, size)

\* Mtime/Atime/Ctime.__call__ on the timestamp t
AgeCall(n, t) ==
    LET days == PyInt(LStrip(n, {"+", "-"}))
        age_days == (NOW - t) \div DAY
    IN  IF days.exc # "none" THEN Raise(days.exc) ELSE n_compare(age_days, n)

RECURSIVE Eval(_, _, _)
\* expr(path, st)
Eval(e, path, st) ==
    CASE e.op = "TrueExpr" -> Ret(TRUE)
      [] e.op = "FalseExpr" -> Ret(FALSE)
      [] e.op = "And" ->
            LET l == Eval(e.left, path, st)
            IN  IF l.exc # "none" \/ ~l.val THEN l ELSE Eval(e.right, path, st)
      [] e.op = "Or" ->
            LET l == Eval(e.left, path, st)
            IN  IF l.exc # "none" \/ l.val THEN l ELSE Eval(e.right, path, st)
      [] e.op = "Not" ->
            LET x == Eval(e.expr, path, st)
            IN  IF x.exc # "none" THEN x ELSE Ret(~x.val)
      [] e.op = "Name" -> Ret(match_pattern(basename(path), e.pattern, TRUE))
      [] e.op = "Iname" -> Ret(match_pattern(basename(path), e.pattern, FALSE))
      [] e.op = "Type" -> TypeCall(e.t, st)
      [] e.op = "User" -> Ret(st.st_uid = e.uid)
      [] e.op = "Group" -> Ret(st.st_gid = e.gid)
      [] e.op = "Size" -> SizeCall(e.size, st)
      [] e.op = "Mtime" -> AgeCall(e.n, st.st_mtime)
      [] e.op = "Atime" -> AgeCall(e.n, st.st_atime)
      [] e.op = "Ctime" -> AgeCall(e.n, st.st_ctime)

\* ------------------------------------------------------------ pyfind: parse_expr

\* the system's user and group databases (pwd, grp)
PwUid(name) == IF name = "root" THEN RetInt(0) ELSE RaiseInt("KeyError")
GrGid(name) == IF name = "root" THEN RetInt(0) ELSE RaiseInt("KeyError")

\* The outcome of building a predicate: the exception raised or the object.
Built(e) == [exc |-> "none", expr |-> e]
BuildFails(x) == [exc |-> x, expr |-> TrueExpr]

\* User.__init__
UserInit(user) ==
    LET id == IF IsDigits(user) THEN PyInt(user) ELSE PwUid(user)
    IN  IF id.exc # "none" THEN BuildFails(id.exc) ELSE Built(UserId(id.val))

\* Group.__init__
GroupInit(group) ==
    LET id == IF IsDigits(group) THEN PyInt(group) ELSE GrGid(group)
    IN  IF id.exc # "none" THEN BuildFails(id.exc) ELSE Built(GroupId(id.val))

\* the test flags that read args[i+1]
ArgTests == {"-name", "-iname", "-type", "-user", "-group", "-size",
             "-mtime", "-atime", "-ctime"}

\* the constructor call of the branch of flag `arg` in parse_expr
Construct(arg, a) ==
    CASE arg = "-name" -> Built(Name(a))
      [] arg = "-iname" -> Built(Iname(a))
      [] arg = "-type" -> Built(Type(a))
      [] arg = "-user" -> UserInit(a)
      [] arg = "-group" -> GroupInit(a)
      [] arg = "-size" -> Built(Size(a))
      [] arg = "-mtime" -> Built(Mtime(a))
      [] arg = "-atime" -> Built(Atime(a))
      [] arg = "-ctime" -> Built(Ctime(a))

\* what parse_expr returns (expr, i), or the exception that ends it
Parsed(e, i) == [exc |-> "none", expr |-> e, i |-> i]
ParseFails(x) == [exc |-> x, expr |-> TrueExpr, i |-> 0]

\* an operator that takes the next token alone as its operand
RestOfStream_next_term(args, i) ==
    IF i + 2 <= Len(args) THEN SubSeq(args, i + 2, i + 2) ELSE <<>>

\* args[i+1:], the tokens an operator hands to the recursive call
RestOfStream(args, i) == Drop(args, i + 1)

RECURSIVE ParseLoop(_, _, _)
\* the while loop of parse_expr, at index i (counted from 0) with `e` built
ParseLoop(args, i, e) ==
    IF ~(i < Len(args)) THEN Parsed(e, i)
    ELSE
    LET arg == args[i + 1] IN
    CASE arg \in ArgTests ->
            IF ~(i + 1 < Len(args)) THEN ParseFails("IndexError")
            ELSE LET c == Construct(arg, args[i + 2])
                 IN  IF c.exc # "none" THEN ParseFails(c.exc)
                     ELSE ParseLoop(args, i + 2, And(e, c.expr))
      [] arg \in {"-print", "-print0", "-delete"} ->
            \* sets the local `actions`, which parse_expr does not return
            ParseLoop(args, i + 1, e)
      [] arg = "-true" -> ParseLoop(args, i + 1, And(e, TrueExpr))
      [] arg = "-false" -> ParseLoop(args, i + 1, And(e, FalseExpr))
      [] arg \in {"!", "-not"} ->
            LET sub == ParseLoop(RestOfStream(args, i), 0, TrueExpr)
            IN  IF sub.exc # "none" THEN sub
                ELSE ParseLoop(args, i + sub.i + 1, And(e, Not(sub.expr)))
      [] arg \in {"-and", "-a"} -> ParseLoop(args, i + 1, e)
      [] arg \in {"-or", "-o"} ->
            LET sub == ParseLoop(RestOfStream(args, i), 0, TrueExpr)
            IN  IF sub.exc # "none" THEN sub
                ELSE ParseLoop(args, i + sub.i + 1, Or(e, sub.expr))
      [] arg \in {"(", ")"} -> ParseLoop(args, i + 1, e)
      [] arg \in {"--help", "--version"} -> ParseFails("SystemExit")
      [] OTHER -> ParseLoop(args, i + 1, e)

\* parse_expr(args)
parse_expr(args) == ParseLoop(args, 0, TrueExpr)

\* ------------------------------------------------------------ the filesystem

\* A path without its trailing separator: the key of an entry in fs.
Canon(p) == IF Len(p) > 1 /\ EndsWith(p, SEP) THEN DropLast(p) ELSE p

RECURSIVE dirname(_)
\* os.path.dirname of a canonical path ("" is the working directory)
dirname(p) ==
    IF Len(p) = 0 THEN ""
    ELSE IF LastChar(p) = SEP THEN DropLast(p)
    ELSE dirname(DropLast(p))

\* os.path.join(root, name)
join(a, name) == IF EndsWith(a, SEP) THEN a \o name ELSE a \o SEP \o name

\* the entries: mode is find's type letter of st_mode
Node(mode, size, days, target, perm) ==
    [mode |-> mode, st_size |-> size, st_uid |-> 0, st_gid |-> 0,
     st_mtime |-> NOW - days * DAY - 1, st_atime |-> NOW - 1,
     st_ctime |-> NOW - days * DAY - 1, target |-> target, perm |-> perm]
RegFile(size) == Node("f", size, 2, "", {"r", "w"})
Dir(perm) == Node("d", 64, 0, "", perm)
Symlink(target) == Node("l", Len(target), 0, target, {"r", "w", "x"})
Fifo == Node("p", 0, 0, "", {"r", "w"})
RWX == {"r", "w", "x"}

\* the fixture of tests/test_pfind.py, with an empty directory beside it
TreeTest ==
    ("r" :> Dir(RWX)) @@ ("r/f" :> RegFile(5)) @@ ("r/d" :> Dir(RWX))
    @@ ("r/d/g" :> RegFile(5)) @@ ("r/e" :> Dir(RWX))

\* a chain of directories four levels deep
TreeDeep ==
    ("r" :> Dir(RWX)) @@ ("r/a" :> Dir(RWX)) @@ ("r/a/b" :> Dir(RWX))
    @@ ("r/a/b/c" :> Dir(RWX)) @@ ("r/a/b/c/f" :> RegFile(1024))

\* symlinks to a file and to a directory, a broken symlink and a fifo
TreeKinds ==
    ("r" :> Dir(RWX)) @@ ("r/f" :> RegFile(1)) @@ ("r/l" :> Symlink("r/f"))
    @@ ("r/d" :> Dir(RWX)) @@ ("r/k" :> Symlink("r/d")) @@ ("r/p" :> Fifo)
    @@ ("r/d/x" :> Symlink("r/z"))

\* a directory without write permission, one without search permission, one
\* without read permission
TreePerm ==
    ("r" :> Dir(RWX)) @@ ("r/n" :> Dir({"r", "x"})) @@ ("r/n/f" :> RegFile(3))
    @@ ("r/q" :> Dir({"r", "w"})) @@ ("r/q/g" :> RegFile(3))
    @@ ("r/u" :> Dir({"w", "x"}))

Trees == {TreeTest, TreeDeep, TreeKinds, TreePerm}

\* stat following one symlink: the entry the path leads to
Follow(f, p) == IF p \in DOMAIN f /\ f[p].mode = "l" THEN f[p].target ELSE p

IsDirFollow(f, p) == Follow(f, p) \in DOMAIN f /\ f[Follow(f, p)].mode = "d"

RECURSIVE Searchable(_, _)
\* every directory on the way to d, and d, can be searched (x)
Searchable(f, d) ==
    d = "" \/ (d \in DOMAIN f /\ f[d].mode = "d" /\ "x" \in f[d].perm
               /\ Searchable(f, dirname(d)))

\* os.lstat(path) succeeds
lstat_ok(f, path) ==
    Canon(path) \in DOMAIN f /\ Searchable(f, dirname(Canon(path)))

\* os.scandir(path) succeeds
scandir_ok(f, path) ==
    /\ IsDirFollow(f, Canon(path))
    /\ "r" \in f[Follow(f, Canon(path))].perm
    /\ Searchable(f, dirname(Canon(path)))

\* the names in directory `path`
Names(f, path) == {basename(p) : p \in {q \in DOMAIN f : dirname(q) = Canon(path)}}

\* DirEntry.is_dir() as os.walk calls it (it follows symlinks; an OSError is False)
entry_is_dir(f, path, name) ==
    LET p == join(Canon(path), name)
    IN  f[p].mode = "d" \/ (IsDirFollow(f, p) /\ Searchable(f, Canon(path)))

\* os.path.islink(path)
islink(f, path) == lstat_ok(f, path) /\ f[Canon(path)].mode = "l"

\* the orders in which a directory can hand out the names of S
Orders(S) ==
    {s \in [1..Cardinality(S) -> S] : \A i, j \in 1..Cardinality(S) : s[i] = s[j] => i = j}

\* a directory's entries can be created and removed (w and x on it)
Writable(f, d) == Searchable(f, d) /\ (d = "" \/ "w" \in f[d].perm)

\* os.remove(path) succeeds
remove_ok(f, path) ==
    /\ Canon(path) \in DOMAIN f
    /\ f[Canon(path)].mode # "d"
    /\ Writable(f, dirname(Canon(path)))

\* a removal of directories that does not ask them to be empty
rmdir_ok_nonempty(f, path) ==
    /\ Canon(path) \in DOMAIN f
    /\ f[Canon(path)].mode = "d"
    /\ Writable(f, dirname(Canon(path)))

\* os.rmdir(path) succeeds: the directory is empty
rmdir_ok(f, path) ==
    /\ Canon(path) \in DOMAIN f
    /\ f[Canon(path)].mode = "d"
    /\ Names(f, path) = {}
    /\ Writable(f, dirname(Canon(path)))

\* the filesystem without the entry at path
Unlinked(f, path) == [p \in DOMAIN f \ {Canon(path)} |-> f[p]]

\* ------------------------------------------------------------ pyfind: walk

mainVars == <<argv, expr_args, paths, expr, actions, mindepth, maxdepth, fs0>>
fnVars == <<inp, res>>
histVars == <<listed, statted, evaluated, acted, queued>>

\* rel_depth = root[len(top):].count(os.sep)
rel_depth(rt, top) == Count(Drop(rt, Len(top)), SEP)

\* `if mindepth and rel_depth < mindepth: continue`
BelowMinDepth(d, mind) == mind # 0 /\ d < mind

\* `if maxdepth is not None and rel_depth > maxdepth`
AboveMaxDepth(d, maxd) == maxd # <<>> /\ d > maxd[1]

\* `for name in files + dirs`
LoopOrder(files, ds) == files \o ds

Reversed(s) == [i \in 1..Len(s) |-> s[Len(s) + 1 - i]]

RECURSIVE SelectIn(_, _, _)
\* the names of s that are no symbolic link in directory prefix, in order
SelectIn(s, f, prefix) ==
    IF s = <<>> THEN <<>>
    ELSE IF ~islink(f, join(prefix, Head(s)))
         THEN <<Head(s)>> \o SelectIn(Tail(s), f, prefix)
    ELSE SelectIn(Tail(s), f, prefix)

\* `for top in paths`: os.walk(top) starts with top on its stack
WalkTop ==
    /\ pc = "walk"
    /\ topIdx <= Len(paths)
    /\ stack' = <<paths[topIdx]>>
    /\ pc' = "oswalk"
    /\ UNCHANGED <<mainVars, fnVars, histVars, fs, topIdx, root, dirs, todo, out, errs>>

\* the loop over paths is over: walk returns and main ends
WalkEnd ==
    /\ pc = "walk"
    /\ topIdx > Len(paths)
    /\ pc' = "done"
    /\ UNCHANGED <<mainVars, fnVars, histVars, fs, topIdx, stack, root, dirs, todo, out, errs>>

\* os.walk cannot read the next directory: the error is ignored (onerror=None)
OsWalkError ==
    /\ pc = "oswalk"
    /\ stack # <<>>
    /\ ~scandir_ok(fs, stack[Len(stack)])
    /\ stack' = SubSeq(stack, 1, Len(stack) - 1)
    /\ UNCHANGED <<mainVars, fnVars, histVars, fs, pc, topIdx, root, dirs, todo, out, errs>>

\* os.walk reads the next directory and yields (root, dirs, files); the loop
\* body runs up to the loop over files + dirs
OsWalkYield ==
    /\ pc = "oswalk"
    /\ stack # <<>>
    /\ scandir_ok(fs, stack[Len(stack)])
    /\ LET rt == stack[Len(stack)]
           names == Names(fs, rt)
           dn == {n \in names : entry_is_dir(fs, rt, n)}
           d == rel_depth(rt, paths[topIdx])
       IN  \E files \in Orders(names \ dn), ds \in Orders(dn) :
             /\ root' = rt
             /\ listed' = Append(listed, rt)
             /\ IF BelowMinDepth(d, mindepth)
                THEN dirs' = ds /\ todo' = <<>>
                ELSE IF AboveMaxDepth(d, maxdepth)
                THEN dirs' = <<>> /\ todo' = <<>>
                ELSE dirs' = ds /\ todo' = LoopOrder(files, ds)
             /\ queued' = queued \o [i \in 1..Len(todo') |-> join(rt, todo'[i])]
    /\ stack' = SubSeq(stack, 1, Len(stack) - 1)
    /\ pc' = "entry"
    /\ UNCHANGED <<mainVars, fnVars, fs, topIdx, out, errs, statted, evaluated, acted>>

\* the loop body is over: os.walk resumes and stacks the subdirectories left
\* in dirs, but for the symbolic links (followlinks=False)
OsWalkDescend ==
    /\ pc = "entry"
    /\ todo = <<>>
    /\ LET sub == SelectIn(dirs, fs, root)
       IN  stack' = stack \o Reversed([i \in 1..Len(sub) |-> join(root, sub[i])])
    /\ pc' = "oswalk"
    /\ UNCHANGED <<mainVars, fnVars, histVars, fs, topIdx, root, dirs, todo, out, errs>>

\* os.walk(top) is exhausted: the next top
OsWalkDone ==
    /\ pc = "oswalk"
    /\ stack = <<>>
    /\ topIdx' = topIdx + 1
    /\ pc' = "walk"
    /\ UNCHANGED <<mainVars, fnVars, histVars, fs, stack, root, dirs, todo, out, errs>>

\* the entry the loop over files + dirs is at
CurPath == join(root, Head(todo))
CurStat == fs[Canon(CurPath)]
CurEval == Eval(expr, CurPath, CurStat)

InLoop == pc = "entry" /\ todo # <<>>

\* os.lstat raises: `continue`
EntryStatFails ==
    /\ InLoop
    /\ ~lstat_ok(fs, CurPath)
    /\ statted' = Append(statted, CurPath)
    /\ todo' = Tail(todo)
    /\ UNCHANGED <<mainVars, fnVars, fs, pc, topIdx, stack, root, dirs, out, errs,
                   listed, evaluated, acted, queued>>

\* expr(path, st) raises: nothing catches it, the run ends with the exception
EntryRaises ==
    /\ InLoop
    /\ lstat_ok(fs, CurPath)
    /\ CurEval.exc # "none"
    /\ statted' = Append(statted, CurPath)
    /\ evaluated' = Append(evaluated, CurPath)
    /\ pc' = CurEval.exc
    /\ UNCHANGED <<mainVars, fnVars, fs, topIdx, stack, root, dirs, todo, out, errs,
                   listed, acted, queued>>

\* expr(path, st) is false
EntryNoMatch ==
    /\ InLoop
    /\ lstat_ok(fs, CurPath)
    /\ CurEval.exc = "none" /\ ~CurEval.val
    /\ statted' = Append(statted, CurPath)
    /\ evaluated' = Append(evaluated, CurPath)
    /\ todo' = Tail(todo)
    /\ UNCHANGED <<mainVars, fnVars, fs, pc, topIdx, stack, root, dirs, out, errs,
                   listed, acted, queued>>

Matches ==
    /\ InLoop
    /\ lstat_ok(fs, CurPath)
    /\ CurEval.exc = "none" /\ CurEval.val
    /\ statted' = Append(statted, CurPath)
    /\ evaluated' = Append(evaluated, CurPath)
    /\ acted' = Append(acted, CurPath)

\* action_print / action_print0: the path and its terminator
EntryPrint ==
    /\ Matches
    /\ actions \in {"print", "print0"}
    /\ out' = Append(out, <<CurPath, IF actions = "print" THEN "\n" ELSE "NUL">>)
    /\ todo' = Tail(todo)
    /\ UNCHANGED <<mainVars, fnVars, fs, pc, topIdx, stack, root, dirs, errs, listed, queued>>

\* what action_delete's os.rmdir / os.remove does to the filesystem: the
\* exception it raises and the filesystem after it
DeleteCall(f, path, st) ==
    IF st.mode = "d"
    THEN IF rmdir_ok(f, path) THEN [exc |-> "none", fs |-> Unlinked(f, path)]
         ELSE [exc |-> "OSError", fs |-> f]
    ELSE IF remove_ok(f, path) THEN [exc |-> "none", fs |-> Unlinked(f, path)]
         ELSE [exc |-> "OSError", fs |-> f]

\* an action_delete without its try/except
DeleteEscapes_uncaught(exc) == exc

\* action_delete's `except Exception`: the exception that leaves action_delete
DeleteEscapes(exc) == "none"

\* action_delete
EntryDelete ==
    /\ Matches
    /\ actions = "delete"
    /\ LET d == DeleteCall(fs, CurPath, CurStat)
       IN  /\ fs' = d.fs
           /\ IF d.exc = "none"
              THEN UNCHANGED <<errs, pc>> /\ todo' = Tail(todo)
              ELSE IF DeleteEscapes(d.exc) = "none"
              THEN /\ errs' = Append(errs, <<"delete failed", CurPath>>)
                   /\ todo' = Tail(todo)
                   /\ UNCHANGED pc
              ELSE /\ pc' = DeleteEscapes(d.exc)
                   /\ UNCHANGED <<errs, todo>>
    /\ UNCHANGED <<mainVars, fnVars, topIdx, stack, root, dirs, out, listed, queued>>

WalkNext ==
    \/ WalkTop \/ WalkEnd
    \/ OsWalkError \/ OsWalkYield \/ OsWalkDescend \/ OsWalkDone
    \/ EntryStatFails \/ EntryRaises \/ EntryNoMatch \/ EntryPrint \/ EntryDelete

\* walk(paths, expr, actions, mindepth, maxdepth): the inputs are drawn
WalkExprArgs ==
    { <<>>, <<"-type", "d">>, <<"-name", "f">>, <<"-false">>,
      <<"-type", "d", "-o", "-size", "1k">> }

PathLists == { <<"r">>, <<"r/">>, <<"r", "r/">> }

DepthArgs == 0..MaxDepthArg

NoHistory ==
    /\ listed = <<>> /\ statted = <<>> /\ evaluated = <<>> /\ acted = <<>>
    /\ queued = <<>> /\ out = <<>> /\ errs = <<>>

NotWalking == topIdx = 1 /\ stack = <<>> /\ root = "" /\ dirs = <<>> /\ todo = <<>>

InitWalk ==
    /\ pc = "walk"
    /\ argv = <<>> /\ expr_args = <<>>
    /\ paths \in PathLists
    /\ fs \in Trees /\ fs0 = fs
    /\ expr \in {parse_expr(a).expr : a \in WalkExprArgs}
    /\ actions \in {"print", "print0", "delete"}
    /\ mindepth \in DepthArgs
    /\ maxdepth \in {<<>>} \cup {<<n>> : n \in DepthArgs}
    /\ NotWalking /\ NoHistory
    /\ inp = <<>> /\ res = <<>>

SpecWalk == InitWalk /\ [][WalkNext]_vars

\* ------------------------------------------------------------ claims about walk

Range(s) == {s[i] : i \in 1..Len(s)}

\* The directory every root of the run names.
RootDir == Canon(paths[1])

\* The levels between the root and directory d: 0 for the root itself.
DirDepth(d) == Count(Drop(Canon(d), Len(RootDir)), SEP)

\* The depth of an entry: that of the directory that contains it.
EntryDepth(p) == DirDepth(dirname(Canon(p)))

InDepthRange(d) == mindepth <= d /\ (maxdepth # <<>> => d <= maxdepth[1])

RECURSIVE Walked(_, _)
\* os.walk reaches directory d of filesystem f from the root: every directory
\* from the root down to d is a real directory that can be read
Walked(f, d) ==
    /\ d \in DOMAIN f /\ f[d].mode = "d" /\ scandir_ok(f, d)
    /\ (d = RootDir \/ (Len(d) > Len(RootDir) /\ Walked(f, dirname(d))))

\* The entries below the root that a walk without depth bounds would stat
\* successfully.
Reachable(f) ==
    {p \in DOMAIN f : p # RootDir /\ Walked(f, dirname(p)) /\ lstat_ok(f, p)}

\* C1: an entry is passed to predicate evaluation if and only if the depth d
\* of its containing directory (levels below the root, 0 for the root's own
\* entries) satisfies mindepth <= d and, when maxdepth is set, d <= maxdepth;
\* this for roots written with or without a trailing separator.
C1_EvaluatedIffInDepthRange ==
    /\ \A i \in 1..Len(evaluated) : InDepthRange(EntryDepth(evaluated[i]))
    /\ pc = "done" =>
          \A p \in Reachable(fs0) :
              InDepthRange(EntryDepth(p)) => p \in Range(evaluated)

\* C1, for the roots written without a trailing separator only.
C1_HoldsWithoutTrailingSeparator ==
    (\A i \in 1..Len(paths) : ~EndsWith(paths[i], SEP)) => C1_EvaluatedIffInDepthRange

\* C8: with maxdepth set, whatever mindepth is, no directory deeper than
\* maxdepth + 1 is listed and no entry whose containing directory is deeper
\* than maxdepth is statted or evaluated.
C8_PruningStopsDescent ==
    maxdepth # <<>> =>
        /\ \A i \in 1..Len(listed) : DirDepth(listed[i]) <= maxdepth[1] + 1
        /\ \A i \in 1..Len(statted) : EntryDepth(statted[i]) <= maxdepth[1]
        /\ \A i \in 1..Len(evaluated) : EntryDepth(evaluated[i]) <= maxdepth[1]

\* C8, for the roots written without a trailing separator and mindepth at
\* most maxdepth + 1.
C8_HoldsWhenMinDepthIsNotBeyond ==
    ((\A i \in 1..Len(paths) : ~EndsWith(paths[i], SEP))
        /\ maxdepth # <<>> /\ mindepth <= maxdepth[1] + 1)
    => C8_PruningStopsDescent

\* The delete of the entry the loop is at fails.
DeleteFailsHere ==
    /\ InLoop /\ actions = "delete" /\ lstat_ok(fs, CurPath)
    /\ CurEval.exc = "none" /\ CurEval.val
    /\ IF CurStat.mode = "d" THEN ~rmdir_ok(fs, CurPath) ELSE ~remove_ok(fs, CurPath)

\* the elements of s the predicate holds of, in order
RECURSIVE MatchingOf(_)
MatchingOf(s) ==
    IF s = <<>> THEN <<>>
    ELSE IF Eval(expr, Head(s), fs0[Canon(Head(s))]).val
         THEN <<Head(s)>> \o MatchingOf(Tail(s))
    ELSE MatchingOf(Tail(s))

\* C7: a failed delete is reported, removes nothing, and leaves the walk
\* where any other action leaves it, at the next entry; and a walk in which
\* deletes failed and that reaches its end has statted every entry its loops
\* were given and acted on every one the predicate holds of.
C7_FailedDeleteNeverStopsTheWalk ==
    /\ [][DeleteFailsHere =>
            /\ fs' = fs
            /\ errs' = Append(errs, <<"delete failed", CurPath>>)
            /\ pc' = "entry" /\ todo' = Tail(todo)
            /\ UNCHANGED <<stack, root, dirs, topIdx>>]_vars
    /\ []((pc = "done" /\ actions = "delete" /\ errs # <<>>) =>
            /\ statted = queued
            /\ acted = MatchingOf(evaluated))

\* C7's case: a delete failed, and an entry met later was deleted.
C7_Witness ==
    /\ pc = "done" /\ actions = "delete" /\ errs # <<>>
    /\ \E i, j \in 1..Len(acted) :
          /\ i < j
          /\ acted[i] = errs[1][2]
          /\ Canon(acted[j]) \notin DOMAIN fs

\* q is inside directory p
Inside(q, p) == Len(q) > Len(p) /\ StartsWith(q, p \o SEP)

\* os.walk listed the entry among the subdirectories (dirs), not among files
InDirs(p) == entry_is_dir(fs0, dirname(Canon(p)), basename(Canon(p)))

\* C10: in a run over a single root, no entry is evaluated or acted on before
\* a directory that contains it, inside one directory the entries os.walk
\* lists as files come before those it lists as subdirectories, and with
\* -delete a directory that held an entry when the run started is never
\* removed.
C10_TopDownKeepsNonEmptyDirs ==
    Len(paths) = 1 =>
        /\ \A i, j \in 1..Len(evaluated) :
              i < j => ~Inside(Canon(evaluated[i]), Canon(evaluated[j]))
        /\ \A i, j \in 1..Len(acted) :
              i < j => ~Inside(Canon(acted[i]), Canon(acted[j]))
        /\ \A i, j \in 1..Len(evaluated) :
              (i < j /\ dirname(Canon(evaluated[i])) = dirname(Canon(evaluated[j])))
                  => ~(InDirs(evaluated[i]) /\ ~InDirs(evaluated[j]))
        /\ actions = "delete" =>
              \A p \in DOMAIN fs0 :
                  (fs0[p].mode = "d" /\ Names(fs0, p) # {}) => p \in DOMAIN fs

\* C10's case: the run matched and deleted everything inside a directory
\* after it failed to delete the directory, which is now empty and in place.
C10_Witness ==
    /\ Len(paths) = 1 /\ pc = "done" /\ actions = "delete"
    /\ \E p \in DOMAIN fs0 :
          /\ fs0[p].mode = "d" /\ Names(fs0, p) # {} /\ p # RootDir
          /\ p \in DOMAIN fs /\ Names(fs, p) = {}
          /\ p \in Range(acted)

\* ------------------------------------------------------------ pyfind: main

walkVars == <<topIdx, stack, root, dirs, todo, out, errs>>

RECURSIVE LeadingPaths(_)
\* the tokens before the first one that starts with "-"
LeadingPaths(a) ==
    IF a = <<>> \/ StartsWith(Head(a), "-") THEN <<>>
    ELSE <<Head(a)>> \o LeadingPaths(Tail(a))

\* main: the leading tokens are the paths (default "."), the rest is expr_args
MainPaths ==
    /\ pc = "main"
    /\ LET p == LeadingPaths(argv)
       IN  /\ paths' = IF p = <<>> THEN <<".">> ELSE p
           /\ expr_args' = Drop(argv, Len(p))
    /\ pc' = "parse"
    /\ UNCHANGED <<argv, fs, fs0, expr, actions, mindepth, maxdepth, walkVars,
                   histVars, fnVars>>

\* main: expr, _ = parse_expr(expr_args); an exception ends the run
MainParse ==
    /\ pc = "parse"
    /\ LET r == parse_expr(expr_args)
       IN  IF r.exc # "none"
           THEN pc' = r.exc /\ UNCHANGED expr
           ELSE pc' = "actions" /\ expr' = r.expr
    /\ UNCHANGED <<argv, expr_args, paths, fs, fs0, actions, mindepth, maxdepth,
                   walkVars, histVars, fnVars>>

ActionFlags == {"-print", "-print0", "-delete"}

ActionOf(flag) ==
    CASE flag = "-print" -> "print" [] flag = "-print0" -> "print0"
      [] flag = "-delete" -> "delete"

Max(S) == CHOOSE x \in S : \A y \in S : y <= x
Min(S) == CHOOSE x \in S : \A y \in S : x <= y

\* main's loop over expr_args: the last token that spells an action flag
LastActionFlag(args) ==
    LET at == {j \in 1..Len(args) : args[j] \in ActionFlags}
    IN  IF at = {} THEN "print" ELSE ActionOf(args[Max(at)])

\* main: the action is chosen again, by a loop over every token of expr_args
MainActions ==
    /\ pc = "actions"
    /\ actions' = LastActionFlag(expr_args)
    /\ pc' = "depth"
    /\ UNCHANGED <<argv, expr_args, paths, fs, fs0, expr, mindepth, maxdepth,
                   walkVars, histVars, fnVars>>

\* int(expr_args[expr_args.index(flag) + 1]) for a flag that is in expr_args
DepthOption(args, flag) ==
    LET idx == Min({j \in 1..Len(args) : args[j] = flag})
    IN  IF idx = Len(args) THEN RaiseInt("IndexError") ELSE PyInt(args[idx + 1])

\* main: the depth options, then walk(paths, expr, actions, mindepth, maxdepth)
MainDepth ==
    /\ pc = "depth"
    /\ LET hasMin == "-mindepth" \in Range(expr_args)
           hasMax == "-maxdepth" \in Range(expr_args)
           mn == IF hasMin THEN DepthOption(expr_args, "-mindepth") ELSE RetInt(0)
           mx == IF hasMax THEN DepthOption(expr_args, "-maxdepth") ELSE RetInt(0)
       IN  IF mn.exc # "none" THEN pc' = mn.exc /\ UNCHANGED <<mindepth, maxdepth>>
           ELSE IF mx.exc # "none"
           THEN pc' = mx.exc /\ mindepth' = mn.val /\ UNCHANGED maxdepth
           ELSE /\ pc' = "walk"
                /\ mindepth' = mn.val
                /\ maxdepth' = IF hasMax THEN <<mx.val>> ELSE <<>>
    /\ UNCHANGED <<argv, expr_args, paths, fs, fs0, expr, actions, walkVars,
                   histVars, fnVars>>

MainNext == MainPaths \/ MainParse \/ MainActions \/ MainDepth \/ WalkNext

\* the tokens the command lines are drawn from
MainTokens ==
    {"-name", "-type", "-size", "-mtime", "-user", "-mindepth", "-maxdepth",
     "-print0", "-delete", "-false", "-o", "!", "--help", "f", "x", "1"}

\* the sequences over S of length at most n
SeqsUpTo(S, n) == UNION {[1..k -> S] : k \in 0..n}

InitMain ==
    /\ pc = "main"
    /\ argv \in {p \o t : p \in {<<"r">>, <<"r/">>}, t \in SeqsUpTo(MainTokens, MaxArgs)}
    /\ expr_args = <<>> /\ paths = <<>>
    /\ fs \in {TreeTest, TreePerm} /\ fs0 = fs
    /\ expr = TrueExpr /\ actions = "print" /\ mindepth = 0 /\ maxdepth = <<>>
    /\ NotWalking /\ NoHistory
    /\ inp = <<>> /\ res = <<>>

SpecMain == InitMain /\ [][MainNext]_vars

\* ------------------------------------------------------------ claims about main

RECURSIVE ScanFrom(_, _)
\* The positions (from 1) of expr_args that the left-to-right scan reads as a
\* flag: the token after a test flag is its argument, not a flag.
ScanFrom(args, i) ==
    IF i > Len(args) THEN {}
    ELSE {i} \cup ScanFrom(args, IF args[i] \in ArgTests THEN i + 2 ELSE i + 1)

ScanPositions(args) == ScanFrom(args, 1)

\* The action of the last token the scan recognizes as an action flag.
ScannedAction(args) ==
    LET at == {j \in ScanPositions(args) : args[j] \in ActionFlags}
    IN  IF at = {} THEN "print" ELSE ActionOf(args[Max(at)])

Traversing == pc \in {"walk", "oswalk", "entry", "done"}

\* C2: the action active during traversal is the one of the last token the
\* scan recognizes as an action flag, print if there is none; a token read as
\* the argument of a test flag does not change it.
C2_ActionIsLastScannedActionFlag ==
    Traversing => actions = ScannedAction(expr_args)

\* C2, for the token lists in which no argument spells an action flag.
C2_HoldsWhenNoArgumentSpellsAnAction ==
    (\A j \in 1..Len(expr_args) :
        expr_args[j] \in ActionFlags => j \in ScanPositions(expr_args))
    => C2_ActionIsLastScannedActionFlag

\* [+-]?NUMBER
WellFormedNumber(s) == IsDigits(LStrip(SubSeq(s, 1, 1), {"+", "-"}) \o Drop(s, 1))

\* [+-]?NUMBER[UNIT]
WellFormedSize(s) ==
    \/ WellFormedNumber(s)
    \/ (Len(s) > 1 /\ LastChar(s) \in Units /\ WellFormedNumber(DropLast(s)))

\* The token list holds a test with a bad argument: a malformed -size or
\* -mtime/-atime/-ctime spec, or an unrecognized -type kind.
HasBadArgument(args) ==
    \E j \in ScanPositions(args) :
        /\ j < Len(args)
        /\ \/ args[j] = "-size" /\ ~WellFormedSize(args[j + 1])
           \/ args[j] \in {"-mtime", "-atime", "-ctime"} /\ ~WellFormedNumber(args[j + 1])
           \/ args[j] = "-type" /\ args[j + 1] \notin {"f", "d", "l", "b", "c", "p", "s"}

\* C3: a token list with a bad predicate argument ends the run in an error
\* before any traversal: no entry is evaluated, no action is invoked and the
\* run does not complete normally.
C3_ConstructionErrorsFailFast ==
    (pc # "main" /\ HasBadArgument(expr_args)) =>
        /\ evaluated = <<>> /\ acted = <<>>
        /\ ~Traversing

\* The last token is a flag that expects one argument, read as a flag.
MissingArgument(args) ==
    /\ args # <<>>
    /\ args[Len(args)] \in ArgTests \cup {"-mindepth", "-maxdepth"}
    /\ Len(args) \in ScanPositions(args)

\* C6: a token list whose last token is a flag that expects an argument ends
\* in a dedicated argument error, never in an index fault, and no traversal
\* is started.
C6_MissingArgumentIsAnArgumentError ==
    (pc # "main" /\ MissingArgument(expr_args)) =>
        /\ pc # "IndexError"
        /\ pc \in {"parse", "actions", "depth", "ArgumentError"}

\* ------------------------------------------------------------ parse_expr alone

ParseTokens ==
    {"-name", "f", "-type", "d", "-size", "1k", "!", "-not", "-or", "-o", "-false"}

\* parse_expr(expr_args) is called and returns or raises
ParseExpr ==
    /\ pc = "parse_expr"
    /\ res' = parse_expr(expr_args)
    /\ pc' = "parsed"
    /\ UNCHANGED <<argv, expr_args, paths, fs, fs0, expr, actions, mindepth, maxdepth,
                   walkVars, histVars, inp>>

InitParse ==
    /\ pc = "parse_expr"
    /\ expr_args \in SeqsUpTo(ParseTokens, MaxParseArgs)
    /\ argv = <<>> /\ paths = <<>>
    /\ fs = TreeTest /\ fs0 = fs
    /\ expr = TrueExpr /\ actions = "print" /\ mindepth = 0 /\ maxdepth = <<>>
    /\ NotWalking /\ NoHistory
    /\ inp = <<>> /\ res = <<>>

SpecParse == InitParse /\ [][ParseExpr]_vars

Operators == {"!", "-not", "-or", "-o"}

\* the positions of the operators the scan meets at a flag position
OperatorsMet(args) == {j \in ScanPositions(args) : args[j] \in Operators}

\* a AND NOT b and a OR b of two outcomes, with Python's short circuit
AndNot(l, r) ==
    IF l.exc # "none" THEN l
    ELSE IF ~l.val THEN Ret(FALSE)
    ELSE IF r.exc # "none" THEN r
    ELSE Ret(~r.val)
OrOf(l, r) ==
    IF l.exc # "none" THEN l
    ELSE IF l.val THEN Ret(TRUE)
    ELSE r

\* the entries the predicates are compared on
SampleTrees == {TreeTest, TreeKinds}

\* C9: for a token list L ++ [op] ++ R whose first operator met at a flag
\* position is op, the predicate built is P(L) AND NOT P(R) for ! and -not
\* and P(L) OR P(R) for -or and -o, on every entry; the recursive call
\* consumes all of R and the outer scan reads no token after the operator.
C9_OperatorsBindToEndOfStream ==
    (pc = "parsed" /\ res.exc = "none" /\ OperatorsMet(expr_args) # {}) =>
        LET k == Min(OperatorsMet(expr_args))
            L == SubSeq(expr_args, 1, k - 1)
            R == Drop(expr_args, k)
            pl == parse_expr(L)
            pr == parse_expr(R)
        IN  /\ pl.exc = "none" /\ pr.exc = "none"
            /\ pr.i = Len(R)
            /\ res.i = Len(expr_args)
            /\ \A t \in SampleTrees : \A p \in DOMAIN t :
                  Eval(res.expr, p, t[p]) =
                      IF expr_args[k] \in {"!", "-not"}
                      THEN AndNot(Eval(pl.expr, p, t[p]), Eval(pr.expr, p, t[p]))
                      ELSE OrOf(Eval(pl.expr, p, t[p]), Eval(pr.expr, p, t[p]))

\* C9's case: an operator between a non-empty L and an R of several terms.
C9_Witness ==
    /\ pc = "parsed" /\ res.exc = "none"
    /\ expr_args = <<"!", "-type", "d", "-false">>
    /\ Min(OperatorsMet(expr_args)) = 1
    /\ Eval(res.expr, "r/d", TreeTest["r/d"]) = Ret(TRUE)

\* ------------------------------------------------------------ the -size predicate alone

Numeral(n) ==
    CASE n = 0 -> "0" [] n = 1 -> "1" [] n = 2 -> "2" [] n = 3 -> "3" [] n = 4 -> "4"
      [] n = 5 -> "5" [] n = 6 -> "6" [] n = 7 -> "7" [] n = 8 -> "8" [] n = 9 -> "9"

\* the multiplier the spec names for a unit ("" is no unit)
Multiplier(u) == IF u = "" THEN 1 ELSE UnitFactor(u)

SizeSpec(i) == i.sign \o Numeral(i.number) \o i.unit

\* Size(spec)(path, st) is called on an entry of st_size bytes
SizeEval ==
    /\ pc = "size"
    /\ res' = SizeCall(SizeSpec(inp), [st_size |-> inp.st_size])
    /\ pc' = "sized"
    /\ UNCHANGED <<argv, expr_args, paths, fs, fs0, expr, actions, mindepth, maxdepth,
                   walkVars, histVars, inp>>

\* the specs drawn, each with the sizes just below, at and just above it
SizeInputs ==
    LET drawn == {t \in {"", "+", "-"} \X (0..MaxNumber) \X (Units \cup {""}) \X {-1, 0, 1} :
                    /\ t[2] <= 2147483646 \div Multiplier(t[3])
                    /\ t[2] * Multiplier(t[3]) + t[4] >= 0}
    IN  {[sign |-> t[1], number |-> t[2], unit |-> t[3],
          st_size |-> t[2] * Multiplier(t[3]) + t[4]] : t \in drawn}

InitSize ==
    /\ pc = "size"
    /\ inp \in SizeInputs
    /\ argv = <<>> /\ expr_args = <<>> /\ paths = <<>>
    /\ fs = TreeTest /\ fs0 = fs
    /\ expr = TrueExpr /\ actions = "print" /\ mindepth = 0 /\ maxdepth = <<>>
    /\ NotWalking /\ NoHistory
    /\ res = <<>>

SpecSize == InitSize /\ [][SizeEval]_vars

\* C4: for a spec [+-]?NUMBER[UNIT] the -size predicate returns
\* s > NUMBER*unit for +, s < NUMBER*unit for -, s = NUMBER*unit for no
\* prefix, and never raises.
C4_SizeComparesInUnits ==
    pc = "sized" =>
        LET bytes == inp.number * Multiplier(inp.unit)
        IN  res = Ret(CASE inp.sign = "+" -> inp.st_size > bytes
                        [] inp.sign = "-" -> inp.st_size < bytes
                        [] OTHER -> inp.st_size = bytes)

\* C4, for the specs without a unit.
C4_HoldsWithoutUnit == inp.unit = "" => C4_SizeComparesInUnits

\* ------------------------------------------------------------ pfind

RECURSIVE DigitPrefix(_)
\* the longest prefix of s made of digits: what (\d+) takes
DigitPrefix(s) ==
    IF Len(s) > 0 /\ CharAt(s, 1) \in Digits
    THEN CharAt(s, 1) \o DigitPrefix(Drop(s, 1))
    ELSE ""

\* parse_size_expr(expr) for a non-empty expr: re.match of
\* ([+-]?)(\d+)([kKmMgG]?) at the start of expr, then (sign, num * factor)
parse_size_expr(e) ==
    LET sign == IF CharAt(e, 1) \in {"+", "-"} THEN CharAt(e, 1) ELSE ""
        num == DigitPrefix(Drop(e, Len(sign)))
        unit == lower(CharAt(e, Len(sign) + Len(num) + 1))
        factor == CASE unit = "k" -> 1024 [] unit = "m" -> 1024 * 1024
                    [] unit = "g" -> 1024 * 1024 * 1024 [] OTHER -> 1
    IN  IF num = "" THEN [exc |-> "ValueError", sign |-> "", value |-> 0]
        ELSE [exc |-> "none", sign |-> sign, value |-> DigitsVal(num) * factor]

\* match_size(size, expr)
match_size(size, e) ==
    IF e = "" THEN Ret(TRUE)
    ELSE LET p == parse_size_expr(e)
         IN  IF p.exc # "none" THEN Raise(p.exc)
             ELSE IF p.sign = "+" THEN Ret(size > p.value)
             ELSE IF p.sign = "-" THEN Ret(size < p.value)
             ELSE Ret(size = p.value)

\* os.path.getsize(path): a stat that follows symbolic links
getsize(f, path) ==
    IF lstat_ok(f, path) /\ Follow(f, Canon(path)) \in DOMAIN f
    THEN RetInt(f[Follow(f, Canon(path))].st_size)
    ELSE RaiseInt("OSError")

RECURSIVE YieldDirs(_, _, _)
\* the loop over dirnames: the paths it yields
YieldDirs(dirpath, dirnames, name) ==
    IF dirnames = <<>> THEN <<>>
    ELSE (IF name # "" /\ ~fnmatch(Head(dirnames), name) THEN <<>>
          ELSE <<join(dirpath, Head(dirnames))>>)
         \o YieldDirs(dirpath, Tail(dirnames), name)

RECURSIVE YieldFiles(_, _, _, _, _)
\* the loop over filenames: the paths it yields and the exception that ends it
YieldFiles(f, dirpath, filenames, name, size) ==
    IF filenames = <<>> THEN [exc |-> "none", out |-> <<>>]
    ELSE
    LET path == join(dirpath, Head(filenames))
        rest == YieldFiles(f, dirpath, Tail(filenames), name, size)
        sz == getsize(f, path)
        m == IF sz.exc # "none" THEN Raise(sz.exc) ELSE match_size(sz.val, size)
    IN  IF name # "" /\ ~fnmatch(Head(filenames), name) THEN rest
        ELSE IF size = "" THEN [exc |-> rest.exc, out |-> <<path>> \o rest.out]
        ELSE IF m.exc # "none" THEN [exc |-> m.exc, out |-> <<>>]
        ELSE IF ~m.val THEN rest
        ELSE [exc |-> rest.exc, out |-> <<path>> \o rest.out]

\* `if type_ in (None, "d")` and `if type_ in (None, "f")`
WantsDirs(type_) == type_ \in {"None", "d"}
WantsFiles(type_) == type_ \in {"None", "f"}

pfindVars == <<argv, expr_args, paths, fs, fs0, expr, actions, mindepth, maxdepth,
               topIdx, root, dirs, todo, errs, statted, evaluated, acted, queued,
               inp, res>>

\* os.walk cannot read the next directory: the error is ignored
TraverseError ==
    /\ pc = "traverse"
    /\ stack # <<>>
    /\ ~scandir_ok(fs, stack[Len(stack)])
    /\ stack' = SubSeq(stack, 1, Len(stack) - 1)
    /\ UNCHANGED <<pfindVars, pc, out, listed>>

\* one turn of traverse's loop over os.walk(root): the directories of dirpath
\* are yielded, then its files, and os.walk stacks the subdirectories
TraverseDir ==
    /\ pc = "traverse"
    /\ stack # <<>>
    /\ scandir_ok(fs, stack[Len(stack)])
    /\ LET dirpath == stack[Len(stack)]
           names == Names(fs, dirpath)
           dn == {n \in names : entry_is_dir(fs, dirpath, n)}
       IN  \E filenames \in Orders(names \ dn), dirnames \in Orders(dn) :
             LET yd == IF WantsDirs(inp.type_)
                       THEN YieldDirs(dirpath, dirnames, inp.name) ELSE <<>>
                 yf == IF WantsFiles(inp.type_)
                       THEN YieldFiles(fs, dirpath, filenames, inp.name, inp.size)
                       ELSE [exc |-> "none", out |-> <<>>]
                 sub == SelectIn(dirnames, fs, dirpath)
             IN  /\ out' = out \o yd \o yf.out
                 /\ listed' = Append(listed, dirpath)
                 /\ IF yf.exc # "none"
                    THEN pc' = yf.exc /\ UNCHANGED stack
                    ELSE /\ pc' = pc
                         /\ stack' = SubSeq(stack, 1, Len(stack) - 1)
                               \o Reversed([i \in 1..Len(sub) |-> join(dirpath, sub[i])])
    /\ UNCHANGED pfindVars

\* os.walk is exhausted: the generator ends
TraverseDone ==
    /\ pc = "traverse"
    /\ stack = <<>>
    /\ pc' = "traversed"
    /\ UNCHANGED <<pfindVars, stack, out, listed>>

TraverseNext == TraverseError \/ TraverseDir \/ TraverseDone

InitPfind ==
    /\ pc = "traverse"
    /\ inp \in [root : {"r", "r/"}, name : {"", "f", "*"}, type_ : {"None", "f", "d"},
                size : {"", "+1", "5", "-1k"}]
    /\ fs \in Trees /\ fs0 = fs
    /\ stack = <<inp.root>>
    /\ argv = <<>> /\ expr_args = <<>> /\ paths = <<>>
    /\ expr = TrueExpr /\ actions = "print" /\ mindepth = 0 /\ maxdepth = <<>>
    /\ topIdx = 1 /\ root = "" /\ dirs = <<>> /\ todo = <<>>
    /\ NoHistory
    /\ res = <<>>

SpecPfind == InitPfind /\ [][TraverseNext]_vars

\* the entries below rootdir whose kind, by a non-following stat, is kind
Below(f, rootdir, kind) ==
    {p \in DOMAIN f : Inside(p, Canon(rootdir)) /\ f[p].mode = kind}

\* C5: traverse(root, type_='f') yields exactly the regular files below root
\* and traverse(root, type_='d') exactly the directories, the kind being the
\* one a non-following stat gives.
C5_TypeYieldsExactlyThatKind ==
    (pc = "traversed" /\ inp.name = "" /\ inp.size = "" /\ inp.type_ \in {"f", "d"}) =>
        {Canon(out[i]) : i \in 1..Len(out)} = Below(fs, inp.root, inp.type_)

\* C5, for the trees of regular files and directories only.
C5_HoldsOnPlainTrees ==
    (\A p \in DOMAIN fs : fs[p].mode \in {"f", "d"}) => C5_TypeYieldsExactlyThatKind

====
